---- MODULE Spec2Model ----
(***************************************************************************)
(* Model of MoreCythonParallelism.ipynb: the CPython Global Interpreter    *)
(* Lock (GIL) and the Cython `nogil` function attribute / `with nogil`     *)
(* block.  Each thread runs one variant of the notebook's example cell:    *)
(*                                                                         *)
(*     with nogil:                                                         *)
(*         result = kernel(z, z_max, n_max)                                *)
(*     print(result)                                                       *)
(*                                                                         *)
(* The GIL is a per-thread flag holds[t]; that at most one flag is set is  *)
(* a property to be verified, not something the encoding gives.            *)
(***************************************************************************)
EXTENDS Integers, FiniteSets

\* Number of OS-level threads.
NThreads == 2
\* Number of times a thread may execute the cell.
MaxRuns == 2

Threads == 1..NThreads

\* The cell variants the notebook discusses:
\*   "cell"         the example cell as written (kernel inside `with nogil`)
\*   "heldcall"     the nogil kernel called without a `with nogil` block
\*   "printInNogil" print() placed inside the `with nogil` block
\*   "smuggle"      a Python object cast to void* and handed to the kernel
Progs == {"cell", "heldcall", "printInNogil", "smuggle"}

VARIABLES
    prog,       \* prog[t]: the cell variant thread t runs
    pc,         \* pc[t]: position of thread t
    holds,      \* holds[t]: thread t holds the GIL
    exitKind,   \* exitKind[t]: how the last kernel call / with-block ended
    runs,       \* runs[t]: completed executions of the cell
    objs        \* shared managed-object state: number of live Python objects

vars == <<prog, pc, holds, exitKind, runs, objs>>

\* A compiler that lets every cell through.
CythonCompileLax(p) == "ok"

\* The Cython compiler rejects Python-object use it can see inside a nogil
\* section; a void*-cast object is invisible to it.
CythonCompile(p) == IF p = "printInNogil" THEN "error" ELSE "ok"

\* A GIL that never makes a thread wait.
GilFreeAlways == TRUE

\* No thread holds the GIL.
GilFree == \A u \in Threads : ~holds[u]

\* A segfault: the process dies, every thread that has not ended stops.
Crash ==
    /\ pc' = [u \in Threads |->
                 IF pc[u] \in {"rejected", "done"} THEN pc[u] ELSE "aborted"]
    /\ holds' = [u \in Threads |-> FALSE]
    /\ UNCHANGED <<prog, exitKind, runs, objs>>

Init ==
    /\ prog \in [Threads -> Progs]
    /\ pc = [t \in Threads |-> "source"]
    /\ holds = [t \in Threads |-> FALSE]
    /\ exitKind = [t \in Threads |-> "none"]
    /\ runs = [t \in Threads |-> 0]
    /\ objs = 0

\* %%cython: the cell is compiled ahead of time.
Compile(t) ==
    /\ pc[t] = "source"
    /\ pc' = [pc EXCEPT ![t] =
                 IF CythonCompile(prog[t]) = "error" THEN "rejected" ELSE "wait"]
    /\ UNCHANGED <<prog, holds, exitKind, runs, objs>>

\* A thread takes the GIL before it executes any of the cell.
Acquire(t) ==
    /\ pc[t] = "wait"
    /\ GilFree
    /\ holds' = [holds EXCEPT ![t] = TRUE]
    /\ pc' = [pc EXCEPT ![t] = "top"]
    /\ UNCHANGED <<prog, exitKind, runs, objs>>

\* A block entry that forgets to release the GIL.
WithEnterKeeps(t) ==
    /\ pc[t] = "top"
    /\ prog[t] # "heldcall"
    /\ pc' = [pc EXCEPT ![t] = "region"]
    /\ exitKind' = [exitKind EXCEPT ![t] = "none"]
    /\ UNCHANGED <<prog, holds, runs, objs>>

\* `with nogil:` entry releases the GIL.
WithEnter(t) ==
    /\ pc[t] = "top"
    /\ prog[t] # "heldcall"
    /\ holds' = [holds EXCEPT ![t] = FALSE]
    /\ pc' = [pc EXCEPT ![t] = "region"]
    /\ exitKind' = [exitKind EXCEPT ![t] = "none"]
    /\ UNCHANGED <<prog, runs, objs>>

\* A kernel that builds a Python object from its result.
KernelMakesObject(t) ==
    /\ pc[t] = "region"
    /\ prog[t] = "cell"
    /\ \E k \in {"normal", "error"} : exitKind' = [exitKind EXCEPT ![t] = k]
    /\ pc' = [pc EXCEPT ![t] = "exit"]
    /\ objs' = objs + 1
    /\ UNCHANGED <<prog, holds, runs>>

\* result = kernel(z, z_max, n_max) inside the block: C data only.  The body
\* is elided in the notebook, so the call may return or end with an error.
Kernel(t) ==
    /\ pc[t] = "region"
    /\ prog[t] = "cell"
    /\ \E k \in {"normal", "error"} : exitKind' = [exitKind EXCEPT ![t] = k]
    /\ pc' = [pc EXCEPT ![t] = "exit"]
    /\ UNCHANGED <<prog, holds, runs, objs>>

\* The kernel touches a Python object that reached it as a void*.  Without
\* the GIL this is a data race on the object: nothing visible happens, or a
\* reference is created or deleted, or the process crashes.
SmuggledTouch(t) ==
    /\ pc[t] = "region"
    /\ prog[t] = "smuggle"
    /\ \/ /\ \E k \in {"normal", "error"} :
                exitKind' = [exitKind EXCEPT ![t] = k]
          /\ pc' = [pc EXCEPT ![t] = "exit"]
          /\ \/ objs' = objs
             \/ objs' = objs + 1
             \/ objs > 0 /\ objs' = objs - 1
          /\ UNCHANGED <<prog, holds, runs>>
       \/ Crash

\* A block exit that takes the GIL back on the normal path only.
WithExitNormalOnly(t) ==
    /\ pc[t] = "exit"
    /\ IF exitKind[t] = "error"
       THEN /\ pc' = [pc EXCEPT ![t] = "end"]
            /\ UNCHANGED holds
       ELSE /\ GilFree
            /\ holds' = [holds EXCEPT ![t] = TRUE]
            /\ pc' = [pc EXCEPT ![t] = "print"]
    /\ UNCHANGED <<prog, exitKind, runs, objs>>

\* A block exit that carries on without waiting for the GIL.
WithExitNoWait(t) ==
    /\ pc[t] = "exit"
    /\ holds' = [holds EXCEPT ![t] = GilFree]
    /\ pc' = [pc EXCEPT ![t] =
                 IF exitKind[t] = "error" THEN "end" ELSE "print"]
    /\ UNCHANGED <<prog, exitKind, runs, objs>>

\* Leaving the with-block, on any exit, returns the GIL to the thread; the
\* thread waits here until the GIL is free.  After an error exit the error
\* propagates and print(result) is skipped.
WithExit(t) ==
    /\ pc[t] = "exit"
    /\ GilFree
    /\ holds' = [holds EXCEPT ![t] = TRUE]
    /\ pc' = [pc EXCEPT ![t] =
                 IF exitKind[t] = "error" THEN "end" ELSE "print"]
    /\ UNCHANGED <<prog, exitKind, runs, objs>>

\* A nogil attribute that releases the GIL by itself.
CallKernelReleases(t) ==
    /\ pc[t] = "top"
    /\ prog[t] = "heldcall"
    /\ pc' = [pc EXCEPT ![t] = "kernelHeld"]
    /\ holds' = [holds EXCEPT ![t] = FALSE]
    /\ exitKind' = [exitKind EXCEPT ![t] = "none"]
    /\ UNCHANGED <<prog, runs, objs>>

\* The nogil kernel called outside any `with nogil` block: the attribute
\* releases nothing.
CallKernelHeld(t) ==
    /\ pc[t] = "top"
    /\ prog[t] = "heldcall"
    /\ pc' = [pc EXCEPT ![t] = "kernelHeld"]
    /\ exitKind' = [exitKind EXCEPT ![t] = "none"]
    /\ UNCHANGED <<prog, holds, runs, objs>>

KernelHeldReturn(t) ==
    /\ pc[t] = "kernelHeld"
    /\ \E k \in {"normal", "error"} :
          /\ exitKind' = [exitKind EXCEPT ![t] = k]
          /\ pc' = [pc EXCEPT ![t] = IF k = "error" THEN "end" ELSE "print"]
    /\ UNCHANGED <<prog, holds, runs, objs>>

\* print(result): result is coerced to a Python object.
PrintResult(t) ==
    /\ pc[t] = "print"
    /\ objs' = objs + 1
    /\ pc' = [pc EXCEPT ![t] = "end"]
    /\ UNCHANGED <<prog, holds, exitKind, runs>>

\* The cell is executed again.
Rerun(t) ==
    /\ pc[t] = "end"
    /\ runs[t] + 1 < MaxRuns
    /\ runs' = [runs EXCEPT ![t] = runs[t] + 1]
    /\ pc' = [pc EXCEPT ![t] = "top"]
    /\ UNCHANGED <<prog, holds, exitKind, objs>>

\* The thread ends; it executes no more bytecode and gives the GIL up.
Finish(t) ==
    /\ pc[t] = "end"
    /\ runs' = [runs EXCEPT ![t] = runs[t] + 1]
    /\ holds' = [holds EXCEPT ![t] = FALSE]
    /\ pc' = [pc EXCEPT ![t] = "done"]
    /\ UNCHANGED <<prog, exitKind, objs>>

Next ==
    \E t \in Threads :
        \/ Compile(t)
        \/ Acquire(t)
        \/ WithEnter(t)
        \/ Kernel(t)
        \/ SmuggledTouch(t)
        \/ WithExit(t)
        \/ CallKernelHeld(t)
        \/ KernelHeldReturn(t)
        \/ PrintResult(t)
        \/ Rerun(t)
        \/ Finish(t)

Spec == Init /\ [][Next]_vars

(***************************************************************************)
(* Properties                                                              *)
(***************************************************************************)

\* Thread t runs on a CPU outside any released region.
RunningOutside(t) == pc[t] \in {"top", "kernelHeld", "print", "end"}

\* Thread t is over: ended, never compiled, or killed with the process.
Ended(t) == pc[t] \in {"done", "rejected", "aborted"}

\* C1: at most one thread holds the GIL in every reachable state.
C1_MutualExclusion == Cardinality({t \in Threads : holds[t]}) <= 1

\* A thread holds the GIL in a later execution of the cell while another
\* thread has left its released region and wants the GIL back.
C1_Witness ==
    \E t, u \in Threads :
        t # u /\ holds[t] /\ runs[t] > 0 /\ pc[u] = "exit"

\* C2 as stated: every step of a thread that changes the managed-object
\* state is taken with the GIL held, and a cell that touches a Python object
\* inside `with nogil` never gets past the compiler.
C2_Original ==
    [][\A t \in Threads :
          /\ (pc'[t] # pc[t] /\ objs' # objs) => holds[t]
          /\ prog[t] = "printInNogil" => pc'[t] \in {"source", "rejected", "aborted"}
      ]_vars

\* C2 amended: the same, except for the step of a kernel that was handed a
\* Python object disguised as a void*.
C2_Amended ==
    [][\A t \in Threads :
          /\ (~(prog[t] = "smuggle" /\ pc[t] = "region")
                /\ pc'[t] # pc[t] /\ objs' # objs) => holds[t]
          /\ prog[t] = "printInNogil" => pc'[t] \in {"source", "rejected", "aborted"}
      ]_vars

\* One cell was rejected by the compiler and another thread has printed its
\* result under the GIL.
C2_Witness ==
    \E t, u \in Threads :
        /\ pc[t] = "rejected"
        /\ prog[u] \in {"cell", "heldcall"}
        /\ pc[u] = "end" /\ exitKind[u] = "normal" /\ holds[u] /\ objs > 0

\* C3: a thread that gets past the end of its `with nogil` block, on a normal
\* or an error exit, holds the GIL at once, and print(result) is executed
\* with the GIL held.
C3_ReacquireOnEveryExit ==
    [][\A t \in Threads :
          /\ (pc[t] = "exit" /\ pc'[t] \notin {"exit", "aborted"})
                => (holds'[t] /\ pc'[t] \in {"print", "end"})
          /\ (pc[t] = "print" /\ pc'[t] = "end") => (holds[t] /\ holds'[t])
      ]_vars

\* A thread whose block ended with an error is past the block and holds the
\* GIL, after an earlier execution that printed.
C3_Witness ==
    \E t \in Threads :
        /\ prog[t] = "cell" /\ runs[t] > 0 /\ objs > 0
        /\ pc[t] = "end" /\ exitKind[t] = "error" /\ holds[t]

\* C4: at most one thread runs outside a released region; two threads run at
\* the same time only if one of them is inside its region.
C4_ConcurrentOnlyWhenReleased ==
    Cardinality({t \in Threads : RunningOutside(t)}) <= 1

\* One thread executes its kernel inside the region while a different thread
\* holds the GIL and runs.
C4_Witness ==
    \E t, u \in Threads :
        t # u /\ pc[t] = "region" /\ holds[u] /\ RunningOutside(u)

\* C5 as stated: a step a thread takes inside its released region leaves the
\* managed-object state as it was.
C5_Original ==
    [][\A t \in Threads :
          (pc[t] = "region" /\ pc'[t] # pc[t]) => objs' = objs
      ]_vars

\* C5 amended: the same, for every thread whose kernel was not handed a
\* Python object disguised as a void*.
C5_Amended ==
    [][\A t \in Threads :
          (prog[t] # "smuggle" /\ pc[t] = "region" /\ pc'[t] # pc[t])
             => objs' = objs
      ]_vars

\* A thread has run its kernel in the region while managed objects existed
\* and another thread held the GIL.
C5_Witness ==
    \E t, u \in Threads :
        /\ t # u /\ prog[t] = "cell" /\ pc[t] = "exit"
        /\ holds[u] /\ objs > 0

\* C6: a thread calling the nogil kernel outside `with nogil` holds the GIL
\* before, during and after the call; once a thread has started, its hold on
\* the GIL changes only at the entry and the exit of a `with nogil` block,
\* until the thread ends.
C6_AttributeReleasesNothing ==
    [][\A t \in Threads :
          /\ ((pc[t] = "kernelHeld" \/ pc'[t] = "kernelHeld") /\ pc'[t] # "aborted")
                => (holds[t] /\ holds'[t])
          /\ (holds'[t] # holds[t]) =>
                \/ pc[t] = "top" /\ pc'[t] = "region"
                \/ pc[t] = "exit" /\ pc'[t] \in {"print", "end"}
                \/ pc[t] = "wait" /\ pc'[t] = "top"
                \/ pc'[t] \in {"done", "aborted"}
      ]_vars

\* A thread is inside the kernel, called without `with nogil`, holding the
\* GIL, while another thread waits for it.
C6_Witness ==
    \E t, u \in Threads :
        t # u /\ pc[t] = "kernelHeld" /\ holds[t] /\ pc[u] \in {"wait", "exit"}

\* C7: a thread whose block has ended stays where it is, without the GIL and
\* with nothing of its own changed, on every step taken while another thread
\* holds the GIL; it moves on only from a state where the GIL is free, and
\* then it holds the GIL.
C7_BlockedUntilFree ==
    [][\A t \in Threads :
          pc[t] = "exit" =>
             /\ ((\E u \in Threads \ {t} : holds[u]) /\ pc'[t] # "aborted")
                   => /\ pc'[t] = "exit" /\ ~holds[t] /\ ~holds'[t]
                      /\ exitKind'[t] = exitKind[t] /\ runs'[t] = runs[t]
             /\ pc'[t] \notin {"exit", "aborted"} => (GilFree /\ holds'[t])
      ]_vars

\* A thread is at the end of its block while another thread holds the GIL.
C7_Witness ==
    \E t, u \in Threads :
        t # u /\ pc[t] = "exit" /\ ~holds[t] /\ holds[u]

\* C10: while some thread is not over, some step is enabled.
C10_DeadlockFree == (\E t \in Threads : ~Ended(t)) => ENABLED Next

\* The GIL is free, one thread has ended, and another waits to take the GIL
\* back.
C10_Witness ==
    \E t, u \in Threads :
        t # u /\ GilFree /\ pc[t] = "done" /\ pc[u] = "exit"

TypeOK ==
    /\ prog \in [Threads -> Progs]
    /\ pc \in [Threads -> {"source", "rejected", "wait", "top", "region",
                           "exit", "kernelHeld", "print", "end", "done",
                           "aborted"}]
    /\ holds \in [Threads -> BOOLEAN]
    /\ exitKind \in [Threads -> {"none", "normal", "error"}]
    /\ runs \in [Threads -> 0..MaxRuns]
    /\ objs \in 0..(2 * NThreads * MaxRuns)
====
